---- MODULE Spec2Model ----
(***************************************************************************)
(* Threat aggregation, defense-rule creation and rule-based re-analysis of *)
(* the cyber-threat backend (backend/server.js, backend/db-functions.js,   *)
(* the analysis transformer and the re-analysis page of the frontend).     *)
(*                                                                         *)
(* Node runs every callback to completion: a handler is cut only at its    *)
(* awaits.  Each action below is one such stretch of code; the iterations  *)
(* of a batch.map are steps during which no other callback may run (Busy). *)
(***************************************************************************)
EXTENDS Integers, Sequences, FiniteSets, Bags, TLC

\* ------------------------------------------------------------------------
\* Program constants, scaled down: 50 detections / 10000 ms / 60 minutes /
\* batches of 100 rows become the small numbers below (times are in clock
\* units).
THRESHOLD_COUNT == 2
THRESHOLD_WINDOW_MS == 1
RULE_EXPIRATION_MINUTES == 1
BATCH_SIZE == 2

\* Bounds of the model.
MaxTime == 2      \* flow timestamps are 0..MaxTime
MaxNow == 2       \* the wall clock runs 0..MaxNow
MaxJobs == 1      \* ingestion requests
MaxEvents == 3    \* detections evaluated over the whole run
MaxFlows == 3     \* rows stored for the job that is re-analysed
MaxRows == 3      \* rows of one ingestion request

IPs == {"a", "b"}
Times == 0..MaxTime
NoValue == "<none>"        \* undefined / null / '' (falsy)
NoTime == -1               \* a time field that is absent (falsy)
BadTime == -2              \* NaN: the field holds a string new Date() cannot parse
UNKNOWN == "UNKNOWN"

VARIABLES
    now,         \* Date.now()
    tracker,     \* RECENT_ATTACK_TRACKER: ip -> sequence of timestamps
    rules,       \* table defense_rules, in insertion order
    evals,       \* bag of the manageDefenseRules calls suspended at an await
    job,         \* the /analyze/* request being served
    seen,        \* observer: seen[ip][t] = detections of ip at t evaluated so far
    ooo,         \* observer: ooo[ip] = a detection of ip arrived after a later one
    storeFault,  \* observer: a rule-store call has failed
    overlap,     \* observer: two calls for one ip were suspended at the same time
    stored,      \* table analysis_results: the rows saved for job 1, oldest first
    rean,        \* the /reanalyze/rules request being served
    ui           \* flowCounts and status of the re-analysis page

engineVars == <<tracker, evals, job, seen, ooo, storeFault, overlap>>

reanVars == <<stored, rean, ui>>

vars == <<now, rules, engineVars, reanVars>>

\* ------------------------------------------------------------------------
\* Rows as they reach manageDefenseRules.
MkRow(src, dst, ts, ca, Ts, cA) ==
    [src_ip |-> src, dst_ip |-> dst, timestamp |-> ts, created_at |-> ca,
     Timestamp |-> Ts, createdAt |-> cA]

\* a row with no field set
NoRow == MkRow(NoValue, NoValue, NoTime, NoTime, NoTime, NoTime)

\* rows of source "a" at every timestamp
NormalRows == { MkRow("a", NoValue, t, NoTime, NoTime, NoTime) : t \in Times }

OddRows ==
    { MkRow(NoValue, "b", BadTime, 1, NoTime, NoTime),      \* dst fallback, created_at
      MkRow(UNKNOWN, "a", 0, NoTime, NoTime, NoTime),        \* unusable address
      MkRow(NoValue, NoValue, 0, NoTime, NoTime, NoTime),    \* no address at all
      MkRow("a", NoValue, BadTime, NoTime, NoTime, NoTime) } \* no parseable time

InputRows == NormalRows \cup OddRows

\* Labels the model server answers with; NoValue is a missing entry of
\* predictions[].
GatewayLabels == {"benign", "Benign", "DDoS", NoValue}

\* row.src_ip || row.dst_ip
ResolveIp(row) == IF row.src_ip # NoValue THEN row.src_ip ELSE row.dst_ip

\* new Date(timeStr).getTime() is a number exactly for a parseable value
Parseable(v) == v # NoTime /\ v # BadTime

\* first of timestamp, created_at, Timestamp, createdAt that parses; NaN = BadTime
FlowTime(row) ==
    LET timeFields == <<row.timestamp, row.created_at, row.Timestamp, row.createdAt>>
        ok == { i \in 1..4 : Parseable(timeFields[i]) }
    IN  IF ok = {} THEN BadTime
        ELSE timeFields[CHOOSE i \in ok : \A k \in ok : i <= k]

\* faulty variant: the early return does not look at the parsed time
EvaluableWithoutTime(row) ==
    /\ ResolveIp(row) # NoValue
    /\ ResolveIp(row) # UNKNOWN

\* the guard of the early return
Evaluable(row) ==
    /\ ResolveIp(row) # NoValue
    /\ ResolveIp(row) # UNKNOWN
    /\ FlowTime(row) # BadTime

\* ------------------------------------------------------------------------
\* The tracker object.
\* faulty variant: the read misses the entry another callback wrote
GetLost(ip) == << >>

Get(ip) == IF ip \in DOMAIN tracker THEN tracker[ip] ELSE << >>

Put(trk, ip, s) == [x \in (DOMAIN trk) \cup {ip} |-> IF x = ip THEN s ELSE trk[x]]

\* faulty variant: the reset after a created rule is left out
DeleteKeyLeftOut(trk, ip) == trk

\* faulty variant: the reset clears the whole tracker
DeleteEveryKey(trk, ip) == << >>

DeleteKey(trk, ip) == [x \in (DOMAIN trk) \ {ip} |-> trk[x]]

\* faulty variant: a timestamp exactly one window old is dropped
InWindowStrict(flowTime, timestamp) ==
    (flowTime - timestamp) < THRESHOLD_WINDOW_MS /\ (flowTime - timestamp) >= 0

\* faulty variant: the filter forgets the window (a running total)
InWindowRunningTotal(flowTime, timestamp) == (flowTime - timestamp) >= 0

\* the filter predicate of the record step
InWindow(flowTime, timestamp) ==
    (flowTime - timestamp) <= THRESHOLD_WINDOW_MS /\ (flowTime - timestamp) >= 0

\* recentDetections: filter, then push(flowTime)
RecentDetections(ip, flowTime) ==
    Append(SelectSeq(Get(ip), LAMBDA timestamp : InWindow(flowTime, timestamp)), flowTime)

\* faulty variant: the threshold test is off by one
ThresholdMetEarly(count) == count >= THRESHOLD_COUNT - 1

ThresholdMet(count) == count >= THRESHOLD_COUNT

\* the filter predicate of the periodic cleanup
SweepKeep(currentTime, timestamp) == (currentTime - timestamp) <= THRESHOLD_WINDOW_MS

SweepOf(trk, currentTime) ==
    LET kept(ip) == SelectSeq(trk[ip], LAMBDA timestamp : SweepKeep(currentTime, timestamp))
        live == { ip \in DOMAIN trk : Len(kept(ip)) # 0 }
    IN  [ip \in live |-> kept(ip)]

\* ------------------------------------------------------------------------
\* The rule store.
RuleIsActive(r, at) == r.is_active /\ r.expires_at > at

RulesOf(ip) == { i \in 1..Len(rules) : rules[i].ip_address = ip }

ActiveRulesOf(ip) == { i \in RulesOf(ip) : RuleIsActive(rules[i], now) }

\* .from('defense_rules').select('ip_address').eq('ip_address', ip).limit(1)
ExistingRules(ip) ==
    IF RulesOf(ip) = {} THEN << >>
    ELSE <<[ip_address |-> ip]>>

\* faulty variant: the result of the existence query is ignored
NoExistingRuleIgnored(existingRules) == TRUE

\* !existingRules || existingRules.length === 0
NoExistingRule(existingRules) == Len(existingRules) = 0

RuleToInsert(e) ==
    [ip_address |-> e.ip, threat_type |-> e.prediction,
     expires_at |-> e.currentTime + RULE_EXPIRATION_MINUTES,
     is_active |-> TRUE, analysis_id |-> e.job, threat_count |-> e.count]

PriorRule(active, exp) ==
    [ip_address |-> "a", threat_type |-> "DDoS", expires_at |-> exp,
     is_active |-> active, analysis_id |-> 0, threat_count |-> THRESHOLD_COUNT]

\* what an earlier run (analysis_id 0) may have left in the table: nothing,
\* or a rule for "a" that is active until the clock reaches 1
PriorTables == { << >>, <<PriorRule(TRUE, 1)>> }

\* the suspended calls, as a bag
Suspend(bag, e) == bag (+) SetToBag({e})

Resume(bag, e) == bag (-) SetToBag({e})

\* ------------------------------------------------------------------------
\* A re-analysis request before it is made, and the page before it is used.
\* (queried: the rule store was asked; requests: the batches posted to the
\* gateway; failed: the offsets of the batches the gateway failed on; prev: what the completed request before this one did;
\* answer: how the active-rule query of the request was answered)
NoPrev == [any |-> FALSE, map |-> << >>, blocked |-> << >>, admitted |-> << >>, requests |-> << >>]

IdleRequest ==
    [pc |-> "idle", analysis_id |-> 0, status |-> 0, cutoff |-> 0, historical |-> << >>, map |-> << >>,
     admitted |-> << >>, blocked |-> << >>, results |-> << >>, payload |-> << >>,
     queried |-> FALSE, requests |-> << >>, failed |-> {}, prev |-> NoPrev,
     answer |-> "none"]

\* An ingestion request at position pc: i is the offset of the batch loop, n
\* the length of the batch in hand and inb the rows of it that batch.map has
\* not reached yet, more whether rows follow the batch, out the array
\* resultsWithPredictions (idx: the position of the row in the input), failed
\* the offsets of the batches the gateway failed on, known the ids of the rows
\* of the table analysis_jobs, rejected whether a call of manageDefenseRules,
\* which no caller awaits, has ended in a rejected promise, returned how the
\* call of manageDefenseRules that ended last has ended ("true", "false",
\* "rejected"; "none" before the first has), logged the failures of the rule
\* store that manageDefenseRules has written to the error log ("query",
\* "insertion"), arg the row manageDefenseRules was called with last.
NewJob(id, pc, known) ==
    [id |-> id, pc |-> pc, i |-> 0, n |-> 0, inb |-> 0, more |-> FALSE,
     out |-> << >>, failed |-> {}, known |-> known, rejected |-> FALSE,
     returned |-> "none", logged |-> {}, arg |-> NoRow]

IdlePage == [status |-> "idle", original |-> 0, reanalyzed |-> 0, blocked |-> 0]

\* ------------------------------------------------------------------------
\* batch.map is running: no other callback can
Busy == job.pc = "mapping"

RECURSIVE SumOver(_, _)
SumOver(f, S) == IF S = {} THEN 0
                 ELSE LET x == CHOOSE x \in S : TRUE
                      IN  f[x] + SumOver(f, S \ {x})

\* detections of ip evaluated so far, and of all sources
SeenOf(ip) == SumOver(seen[ip], Times)

TotalSeen == SeenOf("a") + SeenOf("b")

Init ==
    /\ now = 0
    /\ tracker = << >>
    /\ rules \in PriorTables
    /\ evals = EmptyBag
    /\ job = NewJob(0, "idle", {})
    /\ seen = [ip \in IPs |-> [t \in Times |-> 0]]
    /\ ooo = [ip \in IPs |-> FALSE]
    /\ storeFault = FALSE
    /\ overlap = FALSE
    /\ stored = << >>
    /\ rean = IdleRequest
    /\ ui = IdlePage

\* The clock advances.
Tick ==
    /\ ~Busy
    /\ now < MaxNow
    /\ now' = now + 1
    /\ UNCHANGED <<tracker, rules, evals, job, seen, ooo, storeFault, overlap, reanVars>>

\* The two identical setInterval callbacks.
Sweep ==
    /\ ~Busy
    /\ tracker' = SweepOf(tracker, now)
    /\ UNCHANGED <<now, rules, evals, job, seen, ooo, storeFault, overlap, reanVars>>

\* whether manageDefenseRules returns (false) before its first await
ReturnsAtOnce(row) ==
    IF ~Evaluable(row) THEN TRUE
    ELSE ~ThresholdMet(Len(RecentDetections(ResolveIp(row), FlowTime(row))))

\* manageDefenseRules up to its first await (or to its return, when it does
\* not get that far).
ManageSync(row, prediction, jobId) ==
    IF ~Evaluable(row)
    THEN UNCHANGED <<tracker, evals, seen, ooo, overlap>>
    ELSE LET ipAddress == ResolveIp(row)
             flowTime == FlowTime(row)
             recentDetections == RecentDetections(ipAddress, flowTime)
         IN  /\ tracker' = Put(tracker, ipAddress, recentDetections)
             /\ seen' = [seen EXCEPT ![ipAddress][flowTime] = @ + 1]
             /\ ooo' = [ooo EXCEPT ![ipAddress] =
                           @ \/ \E t \in Times : t > flowTime /\ seen[ipAddress][t] > 0]
             /\ IF ThresholdMet(Len(recentDetections))
                THEN /\ evals' = Suspend(evals,
                          [pc |-> "check_sent", ip |-> ipAddress,
                           currentTime |-> now, prediction |-> prediction, job |-> jobId,
                           count |-> Len(recentDetections), res |-> "none"])
                     /\ overlap' = (overlap \/ \E e \in BagToSet(evals) : e.ip = ipAddress)
                ELSE UNCHANGED <<evals, overlap>>

\* POST /analyze/csv and /analyze/api up to the insert of the job row; the
\* requests are served one after the other.
StartJob ==
    /\ job.pc \in {"idle", "done", "failed"}
    /\ job.id < MaxJobs
    /\ job' = [NewJob(job.id + 1, "job_insert", job.known) EXCEPT !.rejected = job.rejected,
                                                                  !.returned = job.returned,
                                                                  !.logged = job.logged]
    /\ UNCHANGED <<now, tracker, rules, evals, seen, ooo, storeFault, overlap, reanVars>>

\* faulty variant: the outcome of the insert is not looked at
AfterJobInsertUnchecked(outcome, empty) == IF empty THEN "done" ELSE "batch_sent"

\* what follows the insert of the job row: 500 on an error, the message
\* answer without rows, else the batch loop
AfterJobInsert(outcome, empty) ==
    IF outcome # "ok" THEN "failed"
    ELSE IF empty THEN "done" ELSE "batch_sent"

\* The insert into analysis_jobs returns (with an error value, or it throws);
\* with rows to classify the first batch is posted.
JobInsertReturns ==
    /\ job.pc = "job_insert"
    /\ \E outcome \in {"ok", "error", "throw"}, empty \in BOOLEAN :
         job' = [job EXCEPT !.pc = AfterJobInsert(outcome, empty),
                            !.known = IF outcome = "ok" THEN @ \cup {job.id} ELSE @]
    /\ UNCHANGED <<now, tracker, rules, evals, seen, ooo, storeFault, overlap, reanVars>>

\* what follows a batch: the next batch while rows are left, else the save
AfterBatch(more) == IF more THEN "batch_sent" ELSE "saving"

\* rows.slice(i, i + BATCH_SIZE) has n rows, and rows follow it or not
IsSlice(n, more) ==
    /\ more => n = BATCH_SIZE
    /\ job.i + n <= MaxRows
    /\ more => job.i + n < MaxRows

\* faulty variant: the rows of a failed batch are left out
ErrorBatchDropped(i, n) == << >>

\* errorBatch: the n rows of the batch at offset i, labelled 'Error'
ErrorBatch(i, n) == [k \in 1..n |-> [idx |-> i + k, prediction |-> "Error"]]

\* axios.post of a batch fails: the rows get 'Error', no evaluation starts.
GatewayFails ==
    /\ job.pc = "batch_sent"
    /\ \E n \in 1..BATCH_SIZE, more \in BOOLEAN :
         /\ IsSlice(n, more)
         /\ job' = [job EXCEPT !.pc = AfterBatch(more), !.n = n, !.more = more,
                               !.out = @ \o ErrorBatch(job.i, n),
                               !.failed = @ \cup {job.i},
                               !.i = @ + BATCH_SIZE]
    /\ UNCHANGED <<now, tracker, rules, evals, seen, ooo, storeFault, overlap, reanVars>>

\* axios.post of a batch answers: batch.map starts on the rows of the batch
\* (only the last batch of a request may hold less than BATCH_SIZE rows).
GatewayReplies ==
    /\ job.pc = "batch_sent"
    /\ \E n \in 1..BATCH_SIZE, more \in BOOLEAN :
         /\ IsSlice(n, more)
         /\ job' = [job EXCEPT !.pc = "mapping", !.n = n, !.inb = n, !.more = more]
    /\ UNCHANGED <<now, tracker, rules, evals, seen, ooo, storeFault, overlap, reanVars>>

\* 'benign' and 'Error' rows are not handed to the rule engine
IsDetection(prediction) == prediction # "benign" /\ prediction # "Error"

\* One iteration of batch.map.
MapRow ==
    /\ job.pc = "mapping"
    /\ \E row \in InputRows, label \in GatewayLabels :
         LET prediction == IF label = NoValue THEN "Error" ELSE label
             index == job.n - job.inb
         IN  /\ IF IsDetection(prediction) /\ TotalSeen < MaxEvents
                THEN ManageSync(row, prediction, job.id)
                ELSE /\ ~IsDetection(prediction)
                     /\ UNCHANGED <<tracker, evals, seen, ooo, overlap>>
             /\ job' = [job EXCEPT
                          !.inb = @ - 1,
                          !.pc = IF job.inb = 1 THEN AfterBatch(job.more) ELSE "mapping",
                          !.more = IF job.inb = 1 THEN FALSE ELSE @,
                          !.i = IF job.inb = 1 THEN @ + BATCH_SIZE ELSE @,
                          !.out = Append(@, [idx |-> job.i + index + 1,
                                             prediction |-> prediction]),
                          !.returned = IF IsDetection(prediction) /\ ReturnsAtOnce(row)
                                       THEN "false" ELSE @,
                          !.arg = IF IsDetection(prediction) THEN row ELSE @]
    /\ UNCHANGED <<now, rules, storeFault, reanVars>>

\* saveAnalysisResults returns (it reports a failure as false, which the
\* handler ignores); the response is sent.
SaveReturns ==
    /\ job.pc = "saving"
    /\ job' = [job EXCEPT !.pc = "done"]
    /\ UNCHANGED <<now, tracker, rules, evals, seen, ooo, storeFault, overlap, reanVars>>

\* faulty variant: a failed existence query is taken for an empty answer
AfterCheckErrorUnread(outcome, existingRules) ==
    IF outcome # "data" THEN "insert"
    ELSE IF NoExistingRule(existingRules) THEN "insert" ELSE "return"

\* what follows the existence query: a return on an exception or an error
\* value, the insert when no rule was found, else the skip
AfterCheck(outcome, existingRules) ==
    IF outcome # "data" THEN "return"
    ELSE IF NoExistingRule(existingRules) THEN "insert" ELSE "return"

\* The existence query of the suspended call e is answered and the code runs
\* to the next await or return.
CheckReturns(e) ==
    /\ ~Busy
    /\ e.pc = "check_sent"
    /\ \E outcome \in {"data", "error", "throw"} :
         /\ storeFault' = (storeFault \/ outcome # "data")
         /\ IF AfterCheck(outcome, ExistingRules(e.ip)) = "insert"
            THEN /\ evals' = Suspend(Resume(evals, e), [e EXCEPT !.pc = "insert_sent"])
                 /\ job' = [job EXCEPT !.logged = IF outcome # "data" THEN @ \cup {"query"} ELSE @]
            ELSE /\ evals' = Resume(evals, e)
                 /\ job' = [job EXCEPT !.returned = "false",
                                       !.logged = IF outcome # "data" THEN @ \cup {"query"} ELSE @]
    /\ UNCHANGED <<now, tracker, rules, seen, ooo, overlap, reanVars>>

\* faulty variant: the insert replaces the rules the ip already has
InsertReplacing(table, rule) ==
    SelectSeq(table, LAMBDA r : r.ip_address # rule.ip_address) \o <<rule>>

\* .from('defense_rules').insert([ruleToInsert])
Insert(table, rule) == Append(table, rule)

\* The store executes the insert of the suspended call e.
DbInsert(e) ==
    /\ ~Busy
    /\ e.pc = "insert_sent"
    /\ \E outcome \in {"ok", "error", "throw"} :
         /\ evals' = Suspend(Resume(evals, e), [e EXCEPT !.pc = "insert_done", !.res = outcome])
         /\ rules' = IF outcome = "ok" THEN Insert(rules, RuleToInsert(e)) ELSE rules
         /\ storeFault' = (storeFault \/ outcome # "ok")
    /\ UNCHANGED <<now, tracker, job, seen, ooo, overlap, reanVars>>

\* the await of the insert is in no try block: when the insert throws, the
\* promise of the call is rejected
InsertRejects(res) == res = "throw"

\* how the call ends once the insert has answered
ReturnOfInsert(res) ==
    IF InsertRejects(res) THEN "rejected"
    ELSE IF res = "ok" THEN "true" ELSE "false"

\* The insert's answer reaches the suspended call e.
InsertReturns(e) ==
    /\ ~Busy
    /\ e.pc = "insert_done"
    /\ tracker' = IF e.res = "ok" THEN DeleteKey(tracker, e.ip) ELSE tracker
    /\ evals' = Resume(evals, e)
    /\ job' = [job EXCEPT !.rejected = @ \/ InsertRejects(e.res),
                          !.returned = ReturnOfInsert(e.res),
                          !.logged = IF e.res = "error" THEN @ \cup {"insertion"} ELSE @]
    /\ UNCHANGED <<now, rules, seen, ooo, storeFault, overlap, reanVars>>

Next ==
    \/ Tick
    \/ Sweep
    \/ StartJob
    \/ JobInsertReturns
    \/ GatewayFails
    \/ GatewayReplies
    \/ MapRow
    \/ SaveReturns
    \/ \E e \in BagToSet(evals) : CheckReturns(e)
    \/ \E e \in BagToSet(evals) : DbInsert(e)
    \/ \E e \in BagToSet(evals) : InsertReturns(e)

Spec == Init /\ [][Next]_vars

\* ------------------------------------------------------------------------
\* Re-analysis: POST /reanalyze/rules, and the page that shows its answer.

\* Rows the table analysis_results may hold for the job.  Addresses "a" and
\* "b" may have rules, "c" never has one.
FlowShapes ==
    { [src_ip |-> "a", dst_ip |-> "c", prediction |-> "DDoS"],
      [src_ip |-> "b", dst_ip |-> "a", prediction |-> "PortScan"],
      [src_ip |-> "a", dst_ip |-> "c", prediction |-> "Benign"],
      [src_ip |-> "b", dst_ip |-> "c", prediction |-> NoValue],
      [src_ip |-> "a", dst_ip |-> "b", prediction |-> "Error"],
      [src_ip |-> "c", dst_ip |-> "c", prediction |-> "DDoS"] }

StoredTables == UNION { [1..n -> FlowShapes] : n \in 0..MaxFlows }

\* rules an earlier ingestion may have left: one for "a" that expires when the
\* clock reaches 1, one for "a" that was switched off, one for "b"
RuleChoices ==
    <<PriorRule(TRUE, 1),
      PriorRule(FALSE, MaxNow + 1),
      [PriorRule(TRUE, MaxNow) EXCEPT !.ip_address = "b"]>>

RuleTables ==
    { << >>, <<RuleChoices[1]>>, <<RuleChoices[2]>>, <<RuleChoices[3]>>,
      <<RuleChoices[2], RuleChoices[1]>>, <<RuleChoices[1], RuleChoices[3]>> }

\* String.prototype.toLowerCase on the labels that occur
ToLowerCase(label) ==
    CASE label = "Benign" -> "benign"
      [] label = "Error" -> "error"
      [] label = "DDoS" -> "ddos"
      [] label = "PortScan" -> "portscan"
      [] OTHER -> label

Rule_Blocked_Historical == "Rule_Blocked_Historical"

\* getAnalysisResultsByJobId: the rows of the job, by created_at ascending
\* (the position of a row serves as its id)
ResultsByJobId(analysisId) ==
    IF analysisId = 1
    THEN [k \in 1..Len(stored) |->
            [id |-> k, src_ip |-> stored[k].src_ip, dst_ip |-> stored[k].dst_ip,
             prediction |-> stored[k].prediction, original_prediction |-> NoValue]]
    ELSE << >>

\* faulty variant: the query forgets the expiry filter
SelectedIgnoringExpiry(r, cutoff) == r.is_active = TRUE

\* the row filter of the active-rule query
SelectedAsActive(r, cutoff) == r.is_active = TRUE /\ r.expires_at > cutoff

\* .from('defense_rules').select(...).eq('is_active', true).gt('expires_at', cutoff)
ActiveRulesQuery(cutoff) == SelectSeq(rules, LAMBDA r : SelectedAsActive(r, cutoff))

\* blockedIpMap: ip_address -> temporal data of the (last) rule selected for it
BlockedIpMap(activeRules) ==
    LET keys == { activeRules[i].ip_address : i \in 1..Len(activeRules) }
        lastOf(ip) == CHOOSE i \in 1..Len(activeRules) :
                         /\ activeRules[i].ip_address = ip
                         /\ \A k \in 1..Len(activeRules) :
                               activeRules[k].ip_address = ip => k <= i
    IN  [ip \in keys |-> [expires_at |-> activeRules[lastOf(ip)].expires_at]]

\* ruleData = blockedIpMap[row.src_ip] || blockedIpMap[row.dst_ip], as a truth value
\* faulty variant: a flow counts as covered whether or not a rule was read
RuleDataWithoutRule(map, row) == TRUE

RuleData(map, row) == row.src_ip \in DOMAIN map \/ row.dst_ip \in DOMAIN map

\* faulty variant: the rule must still be unexpired when the filter runs
RuleWasActiveNow(map, row) ==
    \E ip \in {row.src_ip, row.dst_ip} \cap DOMAIN map : map[ip].expires_at > now

\* ruleWasActiveAtFlowTime: a constant
RuleWasActiveAtFlowTime(map, row) == TRUE

\* originalPrediction of the filter loop
OriginalPrediction(row) ==
    IF row.prediction # NoValue THEN ToLowerCase(row.prediction) ELSE "error"

\* faulty variant: the label is compared as it is stored
IsBlockedByPolicyCaseSensitive(map, row) ==
    RuleData(map, row) /\ row.prediction # "benign" /\ row.prediction # "error"

IsBlockedByPolicy(map, row) ==
    /\ RuleData(map, row)
    /\ RuleWasActiveAtFlowTime(map, row)
    /\ OriginalPrediction(row) # "benign"
    /\ OriginalPrediction(row) # "error"

\* blockedFlows and flowsToReanalyze of the filter loop
BlockedFlows(map, historical) ==
    LET hit == SelectSeq(historical, LAMBDA row : IsBlockedByPolicy(map, row))
    IN  [k \in 1..Len(hit) |-> [hit[k] EXCEPT !.prediction = Rule_Blocked_Historical]]

FlowsToReanalyze(map, historical) ==
    SelectSeq(historical, LAMBDA row : ~IsBlockedByPolicy(map, row))

\* transformBlockedData, without the sample rows
TransformBlockedData(blockedRows) ==
    LET labelOf(row) == IF row.original_prediction # NoValue
                        THEN row.original_prediction ELSE row.prediction
        names == { labelOf(blockedRows[k]) : k \in 1..Len(blockedRows) }
    IN  [blockedCount |-> Len(blockedRows),
         threatBreakdown |->
            { [name |-> n,
               value |-> Cardinality({ k \in 1..Len(blockedRows) : labelOf(blockedRows[k]) = n })]
              : n \in names }]

\* transformPredictionData, as far as the count of malicious rows
TransformPredictionData(rows) ==
    LET getPrediction(row) ==
            ToLowerCase(IF row.prediction # NoValue THEN row.prediction
                        ELSE IF row.original_prediction # NoValue THEN row.original_prediction
                        ELSE "unknown")
        maliciousRows == SelectSeq(rows, LAMBDA row :
                            getPrediction(row) \notin {"benign", "error", "rule_override_blocked"})
    IN  [maliciousRows |-> Len(maliciousRows)]

\* the body of the 200 answer after the batch loop
FullPayload(r, results) ==
    [dashboardData |-> TransformPredictionData(results),
     original_flow_count |-> Len(r.historical),
     reanalyzed_flow_count |-> Len(results),
     blockedData |-> TransformBlockedData(r.blocked)]

\* the body of the 200 answer when no row passed the filter
FilteredPayload(r) ==
    [message |-> "All flows filtered by active rules.", analysis_id |-> r.analysis_id]

Respond(r, status, payload) == [r EXCEPT !.pc = "responded", !.status = status, !.payload = payload]

\* what a completed request did, for comparison with the next one
Done(r) ==
    IF r.pc = "shown" /\ r.status = 200
    THEN [any |-> TRUE, map |-> r.map, blocked |-> r.blocked, admitted |-> r.admitted,
          requests |-> r.requests]
    ELSE NoPrev

\* The request arrives: analysis_id is checked, the rows of the job are asked for.
Reanalyze ==
    /\ rean.pc \in {"idle", "shown"}
    /\ \E analysis_id \in {NoValue, "1", "2"} :
         LET fresh == [IdleRequest EXCEPT !.prev = Done(rean)]
         IN  rean' = IF analysis_id = NoValue
                     THEN Respond(fresh, 400, << >>)
                     ELSE [fresh EXCEPT !.pc = "fetch_sent",
                                        !.analysis_id = IF analysis_id = "1" THEN 1 ELSE 2]
    /\ UNCHANGED <<now, rules, engineVars, stored, ui>>

\* faulty variant: the request goes on without rows
NoHistoricalDataIgnored(historicalResults) == FALSE

\* !historicalResults || historicalResults.length === 0
NoHistoricalData(historicalResults) == Len(historicalResults) = 0

\* The rows arrive (null on a read error): 404 without rows, else the active
\* rules are asked for, with the present time as the expiry cutoff.
FetchReturns ==
    /\ rean.pc = "fetch_sent"
    /\ \E outcome \in {"data", "null"} :
         LET historicalResults == IF outcome = "data" THEN ResultsByJobId(rean.analysis_id) ELSE << >>
         IN  rean' = IF NoHistoricalData(historicalResults)
                     THEN Respond(rean, 404, << >>)
                     ELSE [rean EXCEPT !.pc = "rules_sent", !.cutoff = now,
                                       !.historical = historicalResults,
                                       !.queried = TRUE]
    /\ UNCHANGED <<now, rules, engineVars, stored, ui>>

\* the rows of the batch that starts after i rows
BatchAt(rows, i) ==
    SubSeq(rows, i + 1, IF i + BATCH_SIZE < Len(rows) THEN i + BATCH_SIZE ELSE Len(rows))

\* batchForModel: the rows without prediction and analysis_id
BatchForModel(batch) ==
    [k \in 1..Len(batch) |->
        [id |-> batch[k].id, src_ip |-> batch[k].src_ip, dst_ip |-> batch[k].dst_ip]]

\* The active rules arrive (no data on a query error; a thrown error ends the
\* request with 500): the rows are filtered, and the first batch is posted
\* unless every row was filtered out.
RulesReturn ==
    /\ rean.pc = "rules_sent"
    /\ \E outcome \in {"data", "null", "throw"} :
         LET activeRules == IF outcome = "data" THEN ActiveRulesQuery(rean.cutoff) ELSE << >>
             blockedIpMap == BlockedIpMap(activeRules)
             flowsToReanalyze == FlowsToReanalyze(blockedIpMap, rean.historical)
             filtered == [rean EXCEPT !.map = blockedIpMap,
                                      !.admitted = flowsToReanalyze,
                                      !.blocked = BlockedFlows(blockedIpMap, rean.historical),
                                      !.answer = outcome]
         IN  rean' = IF outcome = "throw"
                     THEN Respond([rean EXCEPT !.answer = outcome], 500, << >>)
                     ELSE IF Len(flowsToReanalyze) = 0
                          THEN Respond(filtered, 200, FilteredPayload(filtered))
                          ELSE [filtered EXCEPT !.pc = "batch_sent",
                                                !.requests = <<BatchForModel(BatchAt(flowsToReanalyze, 0))>>]
    /\ UNCHANGED <<now, rules, engineVars, stored, ui>>

\* what the gateway may answer for a row of a re-analysis batch
ReLabels == {"DDoS", NoValue}

\* batchWithNewPredictions
WithNewPredictions(batch, predictions) ==
    [k \in 1..Len(batch) |->
        [batch[k] EXCEPT !.original_prediction = batch[k].prediction,
                         !.prediction = IF predictions[k] # NoValue
                                        THEN predictions[k] ELSE "Error"]]

\* faulty variant: the rows of a failed batch are labelled as errors
WithErrorPredictions(batch) ==
    [k \in 1..Len(batch) |-> [batch[k] EXCEPT !.original_prediction = batch[k].prediction,
                                              !.prediction = "Error"]]

\* errorBatch of the re-prediction loop
WithPriorPredictions(batch) ==
    [k \in 1..Len(batch) |-> [batch[k] EXCEPT !.original_prediction = batch[k].prediction]]

\* The gateway answers a batch or fails on it; the next batch is posted, or
\* after the last one the answer is sent.
ReBatchReturns ==
    /\ rean.pc = "batch_sent"
    /\ LET batch == BatchAt(rean.admitted, Len(rean.results))
       IN  \E ok \in BOOLEAN, predictions \in [1..Len(batch) -> ReLabels] :
             LET new == IF ok THEN WithNewPredictions(batch, predictions)
                        ELSE WithPriorPredictions(batch)
                 rePredictionResults == rean.results \o new
                 pushed == [rean EXCEPT
                              !.results = rePredictionResults,
                              !.failed = IF ok THEN @ ELSE @ \cup {Len(rean.results)}]
             IN  /\ ~ok => \A k \in 1..Len(batch) : predictions[k] = NoValue
                 /\ rean' = IF Len(rePredictionResults) < Len(rean.admitted)
                            THEN [pushed EXCEPT
                                    !.requests = Append(@, BatchForModel(
                                        BatchAt(rean.admitted, Len(rePredictionResults))))]
                            ELSE Respond(pushed, 200, FullPayload(rean, rePredictionResults))
    /\ UNCHANGED <<now, rules, engineVars, stored, ui>>

\* reanalyzeOnBackend of the page, from the arrival of the answer on
PageShows ==
    /\ rean.pc = "responded"
    /\ rean' = [rean EXCEPT !.pc = "shown"]
    /\ ui' = IF rean.status # 200
             THEN [ui EXCEPT !.status = "error"]
             ELSE LET originalCount == IF "original_flow_count" \in DOMAIN rean.payload
                                       THEN rean.payload.original_flow_count ELSE 0
                      reanalyzedCount == IF "reanalyzed_flow_count" \in DOMAIN rean.payload
                                         THEN rean.payload.reanalyzed_flow_count ELSE 0
                  IN  [status |-> "success", original |-> originalCount,
                       reanalyzed |-> reanalyzedCount,
                       blocked |-> originalCount - reanalyzedCount]
    /\ UNCHANGED <<now, rules, engineVars, stored>>

\* the clock advances while requests are served
ClockTick ==
    /\ now < MaxNow
    /\ now' = now + 1
    /\ UNCHANGED <<rules, engineVars, reanVars>>

InitReanalyze ==
    /\ now = 0
    /\ rules \in RuleTables
    /\ tracker = << >>
    /\ evals = EmptyBag
    /\ job = NewJob(1, "done", {1})
    /\ seen = [ip \in IPs |-> [t \in Times |-> 0]]
    /\ ooo = [ip \in IPs |-> FALSE]
    /\ storeFault = FALSE
    /\ overlap = FALSE
    /\ stored \in StoredTables
    /\ rean = IdleRequest
    /\ ui = IdlePage

NextReanalyze ==
    \/ ClockTick
    \/ Reanalyze
    \/ FetchReturns
    \/ RulesReturn
    \/ ReBatchReturns
    \/ PageShows

SpecReanalyze == InitReanalyze /\ [][NextReanalyze]_vars

\* ------------------------------------------------------------------------
\* Vocabulary of the properties.
CreatedRulesOf(ip) == { i \in RulesOf(ip) : rules[i].analysis_id # 0 }

InFlight(ip) == { e \in BagToSet(evals) : e.ip = ip }

\* detections of ip evaluated so far whose timestamp lies in [t - T, t]
DetectionsIn(f, t) ==
    SumOver(f, { u \in Times : t - u >= 0 /\ t - u <= THRESHOLD_WINDOW_MS })

DetectionsWithin(ip, t) == DetectionsIn(seen[ip], t)

\* the timestamps of the detections of ip lie within one window
OneWindow(ip) ==
    \A t, u \in Times : seen[ip][t] > 0 /\ seen[ip][u] > 0 => t - u <= THRESHOLD_WINDOW_MS

\* this step is the record step of an evaluation for ip
Records(ip) == seen'[ip] # seen[ip]

\* this step resumes the suspended call e
Resumes(e) == CopiesIn(e, evals') < CopiesIn(e, evals)

\* C1: in every reachable state, for every ip, the rule store holds at most
\* one active rule (is_active set, expires_at in the future) for that ip.
C1_AtMostOneActiveRulePerIp ==
    \A ip \in IPs : Cardinality(ActiveRulesOf(ip)) <= 1

\* C2: when exactly THRESHOLD_COUNT detections of an ip, all within one
\* window, have been evaluated in non-decreasing timestamp order, no rule for
\* the ip existed before and no store call failed, then once the evaluations
\* are over the store holds exactly one rule for the ip, created with
\* threat_count = THRESHOLD_COUNT (by the evaluation of the last of them).
C2_ExactlyOneRuleOnNth ==
    \A ip \in IPs :
        ( /\ SeenOf(ip) = THRESHOLD_COUNT
          /\ OneWindow(ip)
          /\ ~ooo[ip]
          /\ ~storeFault
          /\ RulesOf(ip) = CreatedRulesOf(ip)
          /\ InFlight(ip) = {}
          /\ ~Busy )
        => /\ Cardinality(RulesOf(ip)) = 1
           /\ \A i \in RulesOf(ip) : rules[i].threat_count = THRESHOLD_COUNT

\* C3 (step): an evaluation whose window count is below THRESHOLD_COUNT
\* suspends no call (sends no query, no insert) and leaves the rule store alone.
C3_Step ==
    \A ip \in IPs :
        Records(ip) /\ Len(tracker'[ip]) < THRESHOLD_COUNT
        => evals' = evals /\ rules' = rules

\* C3 (burst): while fewer than THRESHOLD_COUNT detections of an ip have been
\* evaluated, no store call for the ip is in flight and no rule was created
\* for it.
C3_Burst ==
    \A ip \in IPs :
        SeenOf(ip) < THRESHOLD_COUNT => InFlight(ip) = {} /\ CreatedRulesOf(ip) = {}

\* C3: below the threshold an evaluation issues no rule-store query and no
\* insert and creates no rule; a burst of N-1 detections creates no rule.
C3_BelowThresholdNoSideEffect == [](C3_Burst) /\ [][C3_Step]_vars

C3_Witness ==
    /\ SeenOf("a") = THRESHOLD_COUNT - 1
    /\ Get("a") # << >>
    /\ job.pc = "done"
    /\ evals = EmptyBag
    /\ rules = << >>

\* C4 (step): when the existence check of a suspended call is answered while
\* the store holds an active rule for its ip, the call ends there: no insert
\* is sent, the rule store and the tracker are unchanged.
C4_Step ==
    \A e \in BagToSet(evals) :
        e.pc = "check_sent" /\ ActiveRulesOf(e.ip) # {} /\ Resumes(e)
        => /\ evals' = Resume(evals, e)
           /\ rules' = rules
           /\ tracker' = tracker

\* C4 (repeated): threshold crossings of an ip evaluated one after another
\* never leave two active rules for it.
C4_Sequential ==
    ~overlap => \A ip \in IPs : Cardinality(ActiveRulesOf(ip)) <= 1

\* C4: a threshold crossing that finds an active rule issues no insert and
\* leaves the tracker as it is; further crossings evaluated one after another
\* create no second rule.
C4_ActiveRuleSkipsCreation == [](C4_Sequential) /\ [][C4_Step]_vars

C4_Witness ==
    /\ ActiveRulesOf("a") # {}
    /\ Len(rules) = 1
    /\ Len(Get("a")) >= THRESHOLD_COUNT
    /\ SeenOf("a") > THRESHOLD_COUNT
    /\ InFlight("a") = {}
    /\ ~storeFault

\* C5: when the existence check of a suspended call is answered by a healthy
\* store that holds no active rule for its ip, the insert of a new rule is
\* sent (a rule that has expired does not prevent it).
C5_NoActiveRuleMeansInsert ==
    [][ \A e \in BagToSet(evals) :
            e.pc = "check_sent" /\ ActiveRulesOf(e.ip) = {} /\ Resumes(e) /\ ~storeFault'
            => evals' = Suspend(Resume(evals, e), [e EXCEPT !.pc = "insert_sent"]) ]_vars

\* C6 as stated: the count of an evaluation equals the number of detections
\* of the ip evaluated so far whose timestamps lie in the trailing window of
\* the event.
C6_CountIsDetectionsInWindow ==
    [][ \A ip \in IPs :
            Records(ip)
            => Len(tracker'[ip]) = DetectionsIn(seen'[ip], tracker'[ip][Len(tracker'[ip])]) ]_vars

\* C6 (amended): the retained sequence of an ip holds only timestamps within
\* the trailing window T of its latest one, and its length -- the count of the
\* evaluation that recorded that latest one -- never exceeds the number of
\* detections of the ip with a timestamp in that window: it is never a
\* running total.  The count a suspended call carries is at least
\* THRESHOLD_COUNT and at most the detections of its ip in some window.
C6_CountNeverRunningTotal ==
    /\ \A ip \in DOMAIN tracker :
          LET s == tracker[ip]
              last == s[Len(s)]
          IN  /\ \A i \in 1..Len(s) : last - s[i] >= 0 /\ last - s[i] <= THRESHOLD_WINDOW_MS
              /\ Len(s) <= DetectionsWithin(ip, last)
    /\ \A e \in BagToSet(evals) :
          /\ e.count >= THRESHOLD_COUNT
          /\ \E t \in Times : e.count <= DetectionsWithin(e.ip, t)

\* a detection at 0, then one more than T later: the count restarted, no rule
C6_Witness ==
    /\ seen["a"][0] = THRESHOLD_COUNT - 1
    /\ seen["a"][THRESHOLD_WINDOW_MS + 1] = 1
    /\ SeenOf("a") = THRESHOLD_COUNT
    /\ ~ooo["a"]
    /\ Get("a") = <<THRESHOLD_WINDOW_MS + 1>>
    /\ evals = EmptyBag
    /\ rules = << >>
    /\ ~storeFault

\* C7 (frame): a step of an evaluation for ip a -- its record step or the
\* reset after its insert -- leaves the tracker entry and the detections of
\* every other ip b as they are.
C7_Frame ==
    \A a \in IPs, b \in IPs :
        ( /\ a # b
          /\ \/ Records(a)
             \/ \E e \in InFlight(a) : e.pc = "insert_done" /\ Resumes(e) )
        => /\ (b \in DOMAIN tracker') = (b \in DOMAIN tracker)
           /\ (b \in DOMAIN tracker => tracker'[b] = tracker[b])
           /\ seen'[b] = seen[b]

\* C7 (no foreign evidence): the sequence of an ip holds a timestamp at most
\* as often as a detection of that very ip at that timestamp was evaluated.
C7_OwnEvidence ==
    \A b \in DOMAIN tracker : \A t \in Times :
        Cardinality({ i \in 1..Len(tracker[b]) : tracker[b][i] = t }) <= seen[b][t]

\* C7: evaluations for one ip change only the tracker entry of that ip.
C7_TrackerEntriesIndependent == [](C7_OwnEvidence) /\ [][C7_Frame]_vars

\* a rule was created for "a" and its entry reset while "b" kept its evidence
C7_Witness ==
    /\ CreatedRulesOf("a") # {}
    /\ "a" \notin DOMAIN tracker
    /\ InFlight("a") = {}
    /\ Get("b") = <<1>>
    /\ SeenOf("b") = 1


\* ------------------------------------------------------------------------
\* Vocabulary of the re-analysis properties.

\* the filter loop of the request has run
Filtered ==
    \/ rean.pc = "batch_sent"
    \/ rean.pc \in {"responded", "shown"} /\ rean.status = 200

Answered == rean.pc \in {"responded", "shown"} /\ rean.status = 200

IdsOf(rows) == { rows[k].id : k \in 1..Len(rows) }

\* the addresses for which the store holds a rule that is switched on and
\* expires later than the given time
CoveredAt(t) ==
    { rules[i].ip_address : i \in { k \in 1..Len(rules) :
                                      rules[k].is_active /\ rules[k].expires_at > t } }

\* the stored labels that read benign or error, a missing label included
BenignOrError == {"benign", "Benign", "error", "Error", NoValue}

\* C8: every stored flow ends in exactly one of the blocked and the admitted
\* set, the answer's blockedData.blockedCount equals original_flow_count minus
\* reanalyzed_flow_count, and that is the number the page shows as blocked.
C8_PartitionAndBlockedCount ==
    Answered =>
        /\ Len(rean.blocked) + Len(rean.admitted) = Len(rean.historical)
        /\ IdsOf(rean.blocked) \cup IdsOf(rean.admitted) = IdsOf(rean.historical)
        /\ IdsOf(rean.blocked) \cap IdsOf(rean.admitted) = {}
        /\ Len(rean.results) = Len(rean.admitted)
        /\ "blockedData" \in DOMAIN rean.payload
        /\ rean.payload.blockedData.blockedCount
              = rean.payload.original_flow_count - rean.payload.reanalyzed_flow_count
        /\ rean.payload.blockedData.blockedCount = Len(rean.blocked)
        /\ rean.pc = "shown" => ui.blocked = Len(rean.blocked)

\* C9 (as stated): a flow is blocked iff the store holds an active rule for its
\* source or destination address at the time of the call and its stored label
\* is neither benign nor error.
C9_BlockedIffActiveRuleInStore ==
    Filtered =>
        \A k \in 1..Len(rean.historical) :
            LET row == rean.historical[k]
            IN  (row.id \in IdsOf(rean.blocked))
                  <=> /\ {row.src_ip, row.dst_ip} \cap CoveredAt(rean.cutoff) # {}
                      /\ row.prediction \notin BenignOrError

\* C9 (amended): the rule set the call read is the active rules of the store,
\* or empty when the query gave no data; a flow is blocked iff that set has a
\* rule for its source or destination address and its stored label is neither
\* benign nor error in any letter case (a missing label is an error).
C9_BlockedIffActiveRuleRead ==
    Filtered =>
        /\ DOMAIN rean.map \in {CoveredAt(rean.cutoff), {}}
        /\ \A k \in 1..Len(rean.historical) :
              LET row == rean.historical[k]
              IN  /\ (row.id \in IdsOf(rean.blocked))
                        <=> /\ {row.src_ip, row.dst_ip} \cap DOMAIN rean.map # {}
                            /\ row.prediction \notin BenignOrError
                  /\ (row.id \in IdsOf(rean.admitted)) <=> (row.id \notin IdsOf(rean.blocked))

\* a rule for "a" was read, a threat flow of "a" is blocked and a Benign flow
\* of "a" is admitted
C9_Witness ==
    /\ Answered
    /\ "a" \in DOMAIN rean.map
    /\ \E k \in 1..Len(rean.blocked) : rean.blocked[k].src_ip = "a"
    /\ \E k \in 1..Len(rean.admitted) :
          rean.admitted[k].src_ip = "a" /\ rean.admitted[k].prediction = "Benign"

\* C10: a rule that is switched off or whose expiry is not later than the time
\* of the call is not in the rule set the call reads, and every blocked flow
\* has a rule on its source or destination address that is switched on and
\* expires later than the time of the call; the other flows are admitted.
C10_ExpiredRuleBlocksNothing ==
    Filtered =>
        /\ DOMAIN rean.map \subseteq CoveredAt(rean.cutoff)
        /\ \A ip \in DOMAIN rean.map :
              \E i \in 1..Len(rules) :
                 /\ rules[i].ip_address = ip
                 /\ rules[i].is_active
                 /\ rules[i].expires_at > rean.cutoff
                 /\ rules[i].expires_at = rean.map[ip].expires_at
        /\ \A k \in 1..Len(rean.blocked) :
              {rean.blocked[k].src_ip, rean.blocked[k].dst_ip} \cap CoveredAt(rean.cutoff) # {}
        /\ \A k \in 1..Len(rean.historical) :
              LET row == rean.historical[k]
              IN  {row.src_ip, row.dst_ip} \cap CoveredAt(rean.cutoff) = {}
                     => row.id \in IdsOf(rean.admitted)

\* the rule for "a" has expired at the time of the call: the threat flow from
\* "a" is admitted, while the rule for "b" still blocks a flow
C10_Witness ==
    /\ Answered
    /\ \E i \in 1..Len(rules) :
          rules[i].ip_address = "a" /\ rules[i].is_active /\ rules[i].expires_at <= rean.cutoff
    /\ \E k \in 1..Len(rean.admitted) :
          /\ rean.admitted[k].src_ip = "a"
          /\ rean.admitted[k].dst_ip = "c"
          /\ rean.admitted[k].prediction = "DDoS"
    /\ rean.blocked # << >>
    /\ DOMAIN rean.map = {"b"}

\* C11 (state): when a completed request and the one before it read the same
\* active-rule set, they have the same blocked set, the same admitted set and
\* posted the same batches to the gateway.
C11_SameOutcome ==
    (Answered /\ rean.prev.any /\ DOMAIN rean.prev.map = DOMAIN rean.map
              /\ \A ip \in DOMAIN rean.map : rean.prev.map[ip] = rean.map[ip])
        => /\ rean.blocked = rean.prev.blocked
           /\ rean.admitted = rean.prev.admitted
           /\ rean.requests = rean.prev.requests

\* C11 (step): no step of a re-analysis request changes the stored flows, the
\* rule store or the detection tracker.
C11_Frame == stored' = stored /\ rules' = rules /\ tracker' = tracker

\* C11: re-analysis is repeatable and modifies nothing it reads.
C11_ReanalysisRepeatable == [](C11_SameOutcome) /\ [][C11_Frame]_vars

\* a second request with the same rule set, with a blocked flow and a batch
C11_Witness ==
    /\ Answered
    /\ rean.prev.any
    /\ DOMAIN rean.map = {"a"}
    /\ DOMAIN rean.prev.map = {"a"}
    /\ rean.blocked # << >>
    /\ rean.requests # << >>

\* the number of batches a sequence of n rows is cut into
BatchesFor(n) == (n + BATCH_SIZE - 1) \div BATCH_SIZE

\* the positions of the batch that starts after i of n rows
PositionsOfBatch(i, n) == { k \in 1..n : i < k /\ k <= i + BATCH_SIZE }

\* C12: a gateway failure on one re-analysis batch leaves the rows of that
\* batch in the admitted result with their prior label as prediction and as
\* original_prediction; every batch is still posted; the admitted result has
\* the admitted rows, one each, in the order in which they were stored.
C12_FailedBatchKeepsPriorLabels ==
    /\ \A i \in rean.failed :
          \A k \in PositionsOfBatch(i, Len(rean.admitted)) :
             /\ k <= Len(rean.results)
             /\ rean.results[k].id = rean.admitted[k].id
             /\ rean.results[k].prediction = rean.admitted[k].prediction
             /\ rean.results[k].original_prediction = rean.admitted[k].prediction
    /\ (Answered /\ rean.admitted # << >>) =>
          /\ Len(rean.results) = Len(rean.admitted)
          /\ Len(rean.requests) = BatchesFor(Len(rean.admitted))
          /\ \A k \in 1..Len(rean.results) :
                /\ rean.results[k].id = rean.admitted[k].id
                /\ rean.results[k].original_prediction = rean.historical[rean.results[k].id].prediction
          /\ \A k \in 1..(Len(rean.results) - 1) : rean.results[k].id < rean.results[k + 1].id
          /\ rean.payload.reanalyzed_flow_count = Len(rean.admitted)

\* the first of two batches failed, the second was posted and relabelled a row
C12_Witness ==
    /\ Answered
    /\ rean.failed = {0}
    /\ Len(rean.requests) = 2
    /\ Len(rean.results) = BATCH_SIZE + 1
    /\ rean.results[1].prediction = "DDoS"
    /\ rean.results[BATCH_SIZE + 1].original_prediction = "Benign"
    /\ rean.results[BATCH_SIZE + 1].prediction = "DDoS"

\* ------------------------------------------------------------------------
\* Properties of the ingestion loop.

\* the step on which the gateway fails on the batch in hand
BatchFails == job.pc = "batch_sent" /\ job'.failed # job.failed

\* C13 (state): the rows of a batch on which the gateway failed are in the
\* classified output with the label 'Error', and the output holds the input
\* rows handled so far, one each, in input order.
C13_Output ==
    /\ \A i \in job.failed : Len(job.out) > i
    /\ \A k \in 1..Len(job.out) :
          /\ job.out[k].idx = k
          /\ (\E i \in job.failed : i < k /\ k <= i + BATCH_SIZE)
                => job.out[k].prediction = "Error"
    /\ job.pc \in {"batch_sent", "saving"} => Len(job.out) = job.i - BATCH_SIZE + job.n
                                              \/ (job.i = 0 /\ job.out = << >>)

\* C13 (step): the failure of a batch starts no rule evaluation and records no
\* detection, and the loop goes on to the next batch when rows follow.
C13_Step ==
    BatchFails =>
        /\ tracker' = tracker /\ evals' = evals /\ seen' = seen /\ rules' = rules
        /\ job'.pc = IF job'.more THEN "batch_sent" ELSE "saving"
        /\ Len(job'.out) = Len(job.out) + job'.n

\* C13: a gateway failure during ingestion affects only its batch.
C13_IngestionBatchFailureIsolated == [](C13_Output) /\ [][C13_Step]_vars

\* the first batch failed, the next one was classified and its detection recorded
C13_Witness ==
    /\ job.pc = "done"
    /\ job.failed = {0}
    /\ Len(job.out) = BATCH_SIZE + 1
    /\ job.out[1].prediction = "Error"
    /\ job.out[BATCH_SIZE + 1].prediction = "DDoS"
    /\ SeenOf("a") = 1

\* C14: every 200 answer of a re-analysis holds the summary of the admitted
\* flows, the summary of the blocked flows, the original flow count and the
\* admitted flow count, also when every flow was blocked.
C14_AnswerHasSummaries ==
    (rean.pc = "responded" /\ rean.status = 200) =>
        /\ {"dashboardData", "blockedData", "original_flow_count", "reanalyzed_flow_count"}
              \subseteq DOMAIN rean.payload
        /\ rean.payload.original_flow_count = Len(rean.historical)
        /\ rean.payload.reanalyzed_flow_count = Len(rean.admitted)
        /\ rean.payload.blockedData.blockedCount = Len(rean.blocked)

StoredLabel(id) == rean.historical[id].prediction

\* C16: every blocked flow has the policy marker as its label and still
\* carries its original label, and the breakdown of the blocked summary counts
\* the blocked flows under their original labels.
C16_BlockedFlowsKeepOriginalLabel ==
    Filtered =>
        /\ \A k \in 1..Len(rean.blocked) :
              /\ rean.blocked[k].prediction = Rule_Blocked_Historical
              /\ rean.blocked[k].original_prediction = StoredLabel(rean.blocked[k].id)
        /\ (rean.pc = "responded" /\ "blockedData" \in DOMAIN rean.payload) =>
              rean.payload.blockedData.threatBreakdown
                 = { [name |-> StoredLabel(rean.blocked[k].id),
                      value |-> Cardinality({ j \in 1..Len(rean.blocked) :
                                   StoredLabel(rean.blocked[j].id) = StoredLabel(rean.blocked[k].id) })]
                     : k \in 1..Len(rean.blocked) }

\* how often the timestamp t occurs in the sequence s
Count(s, t) == Cardinality({ i \in 1..Len(s) : s[i] = t })

\* the sequence the tracker holds for ip, in the state before the step
Before(ip) == IF ip \in DOMAIN tracker THEN tracker[ip] ELSE << >>

\* the step is a pass of the sweep that changed the tracker
Sweeps == tracker' # tracker /\ seen' = seen /\ evals' = evals

\* C17 (record): a record step sees the whole sequence the step before it left
\* and loses none of its in-window timestamps.
C17_RecordStep ==
    \A ip \in IPs :
        Records(ip) =>
            LET s == tracker'[ip]
                flowTime == s[Len(s)]
            IN  \A t \in Times :
                   Count(s, t) = (IF flowTime - t >= 0 /\ flowTime - t <= THRESHOLD_WINDOW_MS
                                  THEN Count(Before(ip), t) ELSE 0)
                                 + (IF t = flowTime THEN 1 ELSE 0)

\* C17 (sweep): a sweep pass sees the whole tracker and removes only the
\* timestamps that are older than the window.
C17_SweepStep ==
    Sweeps =>
        \A ip \in DOMAIN tracker : \A t \in Times :
            (IF ip \in DOMAIN tracker' THEN Count(tracker'[ip], t) ELSE 0)
               = IF now - t <= THRESHOLD_WINDOW_MS THEN Count(tracker[ip], t) ELSE 0

\* C17 (lock): while batch.map runs over a batch no other callback takes a step.
C17_RunToCompletion == Busy => job'.out # job.out

LatestSeen(f) == CHOOSE t \in Times : f[t] > 0 /\ \A u \in Times : f[u] > 0 => u <= t

\* C18: when the detection with the latest event timestamp of an IP is
\* recorded (and no rule creation has reset the entry), the count is the number
\* of detections of that IP within the window before that timestamp, whatever
\* the order in which they arrived and whenever the sweep ran.
C18_CountByEventTimeAlone ==
    [][ \A ip \in IPs :
          (Records(ip) /\ CreatedRulesOf(ip) = {}
             /\ tracker'[ip][Len(tracker'[ip])] = LatestSeen(seen'[ip]))
          => Len(tracker'[ip]) = DetectionsIn(seen'[ip], LatestSeen(seen'[ip])) ]_vars

\* C19 (state): rows are posted to the gateway, classified and evaluated only
\* for a job whose row is in analysis_jobs; every suspended evaluation and every
\* created rule names such a job; a job whose insert failed has classified
\* nothing.
C19_JobRowFirst ==
    /\ (job.pc \in {"batch_sent", "mapping", "saving"} \/ job.out # << >>) => job.id \in job.known
    /\ \A e \in BagToSet(evals) : e.job \in job.known
    /\ \A i \in 1..Len(rules) : rules[i].analysis_id # 0 => rules[i].analysis_id \in job.known
    /\ TotalSeen > 0 => job.known # {}
    /\ job.pc = "failed" => job.out = << >> /\ job.id \notin job.known

\* C19 (step): the step on which the insert of the job row fails records no
\* detection, starts no evaluation and creates no rule.
C19_Step ==
    (job.pc = "job_insert" /\ job'.pc = "failed") =>
        tracker' = tracker /\ seen' = seen /\ evals' = evals /\ rules' = rules

\* C19: the job row is inserted before any flow of the job is processed.
C19_JobInsertedBeforeFlows == [](C19_JobRowFirst) /\ [][C19_Step]_vars

\* a rule was created on the evidence of a job whose row had been inserted
C19_Witness ==
    /\ \E i \in 1..Len(rules) : rules[i].analysis_id = 1
    /\ job.known = {1}
    /\ job.pc = "done"

\* C20 (state): no call of manageDefenseRules ends in a rejected promise.
C20_NeverRejects == ~job.rejected

\* C20 (step): the step on which a rule-store call of an evaluation fails
\* leaves the ingestion request, its output and the other evaluations as they
\* are, and creates no rule.
C20_Step ==
    \A e \in BagToSet(evals) :
        (Resumes(e) /\ IF e.pc = "check_sent"
                       THEN RulesOf(e.ip) = {} /\ evals' = Resume(evals, e)
                       ELSE e.pc = "insert_done" /\ e.res # "ok") =>
            /\ job'.pc = job.pc /\ job'.out = job.out
            /\ rules' = rules
            /\ \A d \in BagToSet(evals) : d # e => CopiesIn(d, evals') = CopiesIn(d, evals)

\* C20: a rule-store failure is confined to its rule-creation attempt.
C20_StoreFailureConfined == [](C20_NeverRejects) /\ [][C20_Step]_vars

\* the event time of the detection the step records for ip
RecordedTime(ip) == CHOOSE t \in Times : seen'[ip][t] # seen[ip][t]

\* the positions of the sequence s whose timestamps lie within the window
\* that ends at the event time
Retained(s, eventTime) ==
    { i \in 1..Len(s) : eventTime - s[i] >= 0 /\ eventTime - s[i] <= THRESHOLD_WINDOW_MS }

\* the j-th smallest element of the set of positions
NthOf(positions, j) == CHOOSE i \in positions : Cardinality({ k \in positions : k <= i }) = j

\* C21: a record step for (ip, eventTime) leaves the sequence of ip equal to
\* the timestamps retained before with 0 <= eventTime - t <= WINDOW, in their
\* order, followed by eventTime (a timestamp exactly WINDOW old is kept, later
\* and older ones are removed), and the count of an evaluation it starts is the
\* length of that sequence.
C21_RecordStepFiltersAndAppends ==
    [][ \A ip \in IPs :
          Records(ip) =>
             LET old == Before(ip)
                 new == tracker'[ip]
                 kept == Retained(old, RecordedTime(ip))
             IN  /\ Len(new) = Cardinality(kept) + 1
                 /\ new[Len(new)] = RecordedTime(ip)
                 /\ \A j \in 1..Cardinality(kept) : new[j] = old[NthOf(kept, j)]
                 /\ \A e \in BagToSet(evals') :
                       CopiesIn(e, evals') > CopiesIn(e, evals) =>
                          e.ip = ip /\ e.count = Len(new) ]_vars

\* a timestamp exactly one window old was kept, after a later one was removed
C21_Witness ==
    /\ Get("a") = <<0, THRESHOLD_WINDOW_MS>>
    /\ seen["a"][THRESHOLD_WINDOW_MS + 1] = 1
    /\ SeenOf("a") = 3

\* C22: in every reachable state every retained timestamp t satisfies
\* now - t <= WINDOW on the wall clock, and no key maps to an empty sequence.
C22_RetainedWithinWallClockWindow ==
    \A ip \in DOMAIN tracker :
       /\ tracker[ip] # << >>
       /\ \A i \in 1..Len(tracker[ip]) : now - tracker[ip][i] <= THRESHOLD_WINDOW_MS

\* the second half of C22 alone: no key maps to an empty sequence
C22_NoEmptySequence == \A ip \in DOMAIN tracker : tracker[ip] # << >>

\* the step hands the answer of the insert to the suspended call e
InsertAnswered(e, res) == e.pc = "insert_done" /\ e.res = res /\ Resumes(e)

\* C23: when the insert of a new rule succeeds, the tracker entry of the ip is
\* removed and the evaluation reports that a rule was created; the next
\* detection of the ip (recorded into the removed entry) starts a fresh window
\* with count 1.
C23_SuccessResetsTracker ==
    [][ /\ \A e \in BagToSet(evals) :
             InsertAnswered(e, "ok") =>
                /\ e.ip \notin DOMAIN tracker'
                /\ job'.returned = "true"
                /\ \E i \in CreatedRulesOf(e.ip) : rules[i].ip_address = e.ip
        /\ \A ip \in IPs :
             (Records(ip) /\ ip \notin DOMAIN tracker) =>
                tracker'[ip] = <<RecordedTime(ip)>> ]_vars

\* a third detection with the timestamp of the two that made the rule is
\* alone in the tracker: no sweep can have removed them, the reset has
C23_Witness ==
    /\ now = 0
    /\ seen["a"][0] = 3
    /\ Get("a") = <<0>>
    /\ CreatedRulesOf("a") # {}

\* this step suspends a call as e
Suspends(e) == CopiesIn(e, evals') > CopiesIn(e, evals)

\* the suspended calls whose insert has failed and that have not resumed yet
FailedInserts == { e \in BagToSet(evals) : e.pc = "insert_done" /\ e.res # "ok" }

\* C24 (failure): the step that hands a failed insert to the call leaves the
\* tracker and the rule store as they are and reports no created rule.
C24_FailureStep ==
    \A e \in FailedInserts :
       Resumes(e) => tracker' = tracker /\ rules' = rules /\ job'.returned # "true"

\* C24 (retry): a detection that finds the count at the threshold or above
\* issues the existence check again; a check made while the store has no rule
\* for the ip goes on to the insert unless the query itself fails (the call
\* then ends with false); an insert the store accepts adds the rule of the ip.
C24_RetryStep ==
    /\ \A ip \in IPs :
          (Records(ip) /\ Len(tracker'[ip]) >= THRESHOLD_COUNT) =>
             \E e \in BagToSet(evals') :
                /\ CopiesIn(e, evals') > CopiesIn(e, evals)
                /\ e.pc = "check_sent" /\ e.ip = ip /\ e.count = Len(tracker'[ip])
    /\ \A e \in BagToSet(evals) :
          (e.pc = "check_sent" /\ Resumes(e) /\ RulesOf(e.ip) = {}) =>
             IF job'.returned = "false" /\ storeFault'
             THEN rules' = rules /\ tracker' = tracker
             ELSE Suspends([e EXCEPT !.pc = "insert_sent"])
    /\ \A e \in BagToSet(evals) :
          (e.pc = "insert_sent" /\ Resumes(e) /\ Suspends([e EXCEPT !.pc = "insert_done", !.res = "ok"])) =>
             /\ Len(rules') = Len(rules) + 1
             /\ rules'[Len(rules')].ip_address = e.ip
             /\ rules'[Len(rules')].threat_count = e.count

\* C24 (state): while a call holds a failed insert, the store has no rule
\* for its ip.
C24_NoRuleAfterFailure == \A e \in FailedInserts : RulesOf(e.ip) = {}

\* C24: when the insert of a new rule fails, the tracker sequence of the ip is
\* untouched and no rule exists for it; the next detection within the window
\* repeats the existence check and, the store answering, the insert, and the
\* rule is created.
C24_FailedInsertIsRetried ==
    [](C24_NoRuleAfterFailure) /\ [][C24_FailureStep /\ C24_RetryStep]_vars

\* what the code does keep of C24: the failure and the retry steps, and no
\* rule for the ip unless two evaluations of the ip overlapped
C24_ExceptOverlap ==
    []((~overlap) => C24_NoRuleAfterFailure) /\ [][C24_FailureStep /\ C24_RetryStep]_vars

\* a retry after a failed insert has created the rule: the third detection,
\* counted with the two whose insert was rejected, made it
C24_RetryReached ==
    /\ job.rejected /\ ~overlap
    /\ \E i \in CreatedRulesOf("a") : rules[i].threat_count = THRESHOLD_COUNT + 1

\* C25: when the existence check fails (error value or exception), the
\* evaluation ends there: it issues no insert and no second query, creates no
\* rule and leaves the tracker as it is.  (A check has failed when the step
\* writes the query failure to the log, or when the store holds no rule for
\* the ip and the call still does not go on to the insert.)
C25_FailedCheckAbandons ==
    [][ \A e \in BagToSet(evals) :
          ( /\ e.pc = "check_sent" /\ Resumes(e)
            /\ IF "query" \in job'.logged \ job.logged THEN TRUE
               ELSE RulesOf(e.ip) = {} /\ ~Suspends([e EXCEPT !.pc = "insert_sent"]) ) =>
             /\ evals' = Resume(evals, e)
             /\ rules' = rules
             /\ tracker' = tracker
             /\ job'.returned = "false" /\ job'.rejected = job.rejected ]_vars

\* a failed existence check has ended the only evaluation: the tracker holds
\* its detections, the store no rule
C25_Witness ==
    /\ job.logged = {"query"} /\ ~job.rejected
    /\ evals = EmptyBag
    /\ Get("a") = <<0, 0>>
    /\ rules = << >>

\* the step calls manageDefenseRules (with the row job'.arg)
Calls ==
    /\ Len(job'.out) = Len(job.out) + 1
    /\ job'.out[Len(job'.out)].prediction \notin {"benign", "Error"}

\* the row has no usable source key: both addresses missing, or the one
\* resolved is 'UNKNOWN'
NoUsableKey(row) ==
    \/ row.src_ip = NoValue /\ row.dst_ip = NoValue
    \/ row.src_ip = UNKNOWN
    \/ row.src_ip = NoValue /\ row.dst_ip = UNKNOWN

\* the first of the four time fields that parses, in the order the claim names
FirstParseable(row) ==
    IF Parseable(row.timestamp) THEN row.timestamp
    ELSE IF Parseable(row.created_at) THEN row.created_at
    ELSE IF Parseable(row.Timestamp) THEN row.Timestamp
    ELSE IF Parseable(row.createdAt) THEN row.createdAt
    ELSE BadTime

\* C26: a call with a row that has no usable source key, or none of whose
\* time fields (timestamp, created_at, Timestamp, createdAt, first parseable
\* wins) parses, returns false without raising and leaves tracker, rule store
\* and suspended calls as they are; any other row is recorded under its key
\* at its first parseable time.
C26_UnusableRowIsSkipped ==
    [][ Calls =>
          IF NoUsableKey(job'.arg) \/ FirstParseable(job'.arg) = BadTime
          THEN /\ tracker' = tracker /\ rules' = rules /\ evals' = evals /\ seen' = seen
               /\ job'.returned = "false" /\ job'.rejected = job.rejected
          ELSE LET ip == IF job'.arg.src_ip # NoValue THEN job'.arg.src_ip ELSE job'.arg.dst_ip
               IN  /\ Records(ip)
                   /\ RecordedTime(ip) = FirstParseable(job'.arg)
                   /\ tracker'[ip][Len(tracker'[ip])] = FirstParseable(job'.arg) ]_vars

\* three rows classified as attacks were passed on and the last, whose time
\* does not parse, was skipped: nothing is tracked, stored or suspended
C26_Witness ==
    /\ Len(job.out) = 3 /\ \A k \in 1..3 : job.out[k].prediction = "DDoS"
    /\ tracker = << >> /\ rules = << >> /\ evals = EmptyBag
    /\ job.returned = "false" /\ ~job.rejected
    /\ job.arg.timestamp = BadTime /\ job.arg.src_ip = "a"

\* the label reads benign or error once lower-cased, as re-analysis reads it
ReadsBenignOrError(label) == ToLowerCase(label) \in {"benign", "error"}

\* C27 (state): no call of the rule engine and no rule it created carries a
\* label that reads benign or error in any letter case.
C27_NoBenignRule ==
    /\ \A e \in BagToSet(evals) : ~ReadsBenignOrError(e.prediction)
    /\ \A i \in 1..Len(rules) : rules[i].analysis_id # 0 => ~ReadsBenignOrError(rules[i].threat_type)

\* C27 (step): mapping a row whose label reads benign or error records
\* nothing and starts no evaluation.
C27_Step ==
    ( /\ Len(job'.out) = Len(job.out) + 1
      /\ ReadsBenignOrError(job'.out[Len(job'.out)].prediction) ) =>
       tracker' = tracker /\ seen' = seen /\ evals' = evals

\* C27: a detection is recorded only for a row whose label is neither benign
\* nor error under the case-insensitive test of re-analysis: such a row never
\* adds a timestamp, never leads to a rule, and no created rule has a benign
\* or error threat_type.
C27_OnlyAttacksAreDetections == [](C27_NoBenignRule) /\ [][C27_Step]_vars

\* what the code keeps of C27: the exact labels 'benign' and 'Error' record
\* nothing and start no evaluation
C27_ExactLabelsOnly ==
    [][ ( /\ Len(job'.out) = Len(job.out) + 1
          /\ job'.out[Len(job'.out)].prediction \in {"benign", "Error"} ) =>
           tracker' = tracker /\ seen' = seen /\ evals' = evals ]_vars

\* C28: no step modifies or deletes a stored rule: the table only grows at
\* its end, every stored rule keeps all its fields, and a rule that stops
\* being active does so in a step of the clock that reaches its expires_at.
C28_RulesAreNeverChanged ==
    [][ /\ Len(rules') >= Len(rules)
        /\ \A i \in 1..Len(rules) :
              /\ rules'[i] = rules[i]
              /\ (RuleIsActive(rules[i], now) /\ ~RuleIsActive(rules'[i], now')) =>
                    /\ now' > now
                    /\ rules[i].expires_at <= now' ]_vars

\* a rule the engine created next to an older one, both still stored, the
\* created one expired
C28_Witness ==
    /\ Len(rules) = 2
    /\ rules[1].analysis_id = 0 /\ rules[2].analysis_id # 0
    /\ ~RuleIsActive(rules[2], now)

\* C29: the reset after a created rule removes only the detections that were
\* its evidence: the detections recorded for the ip after the evaluation
\* counted (while its check or insert was in flight) are still tracked after
\* the insert has succeeded.
C29_InFlightDetectionsSurviveReset ==
    [][ \A e \in BagToSet(evals) :
          (InsertAnswered(e, "ok") /\ Len(Before(e.ip)) > e.count) =>
             /\ e.ip \in DOMAIN tracker'
             /\ Len(tracker'[e.ip]) >= Len(tracker[e.ip]) - e.count ]_vars

\* what the code does instead: the reset removes the whole entry of the ip
C29_ResetRemovesAll ==
    [][ \A e \in BagToSet(evals) :
          InsertAnswered(e, "ok") => e.ip \notin DOMAIN tracker' ]_vars

\* the rows of the job were all posted to the gateway, batch by batch
AllResubmitted ==
    /\ Len(rean.requests) = BatchesFor(Len(rean.historical))
    /\ \A k \in 1..Len(rean.requests) :
          rean.requests[k] = BatchForModel(BatchAt(rean.historical, (k - 1) * BATCH_SIZE))

\* what C30 promises of a request whose active-rule query was answered so
ProceedsWithoutRules ==
    /\ rean.status # 500
    /\ rean.map = << >> /\ rean.blocked = << >>
    /\ rean.admitted = rean.historical
    /\ rean.pc \in {"responded", "shown"} =>
          /\ rean.status = 200
          /\ AllResubmitted
          /\ rean.payload.blockedData.blockedCount = 0
          /\ rean.payload.reanalyzed_flow_count = Len(rean.historical)

\* C30: when the active-rule query fails (error value or exception) or
\* returns no data, the call proceeds with an empty rule set: no flow is
\* blocked, every stored flow is admitted and posted to the gateway again,
\* and the call does not fail.
C30_QueryFailureBlocksNothing ==
    rean.answer \in {"null", "throw"} => ProceedsWithoutRules

\* C30 (amended): the above when the query is answered without data (with an
\* error value or with none); when the query raises, the call ends with
\* status 500 and posts nothing to the gateway.
C30_NoDataBlocksNothing ==
    /\ rean.answer = "null" => ProceedsWithoutRules
    /\ rean.answer = "throw" =>
          rean.pc \in {"responded", "shown"} /\ rean.status = 500 /\ rean.requests = << >>

\* a request answered without data is over: all three flows were admitted and
\* posted again although the store holds an active rule that covers an attack
\* flow among them
C30_Witness ==
    /\ rean.answer = "null" /\ rean.pc = "responded" /\ rean.status = 200
    /\ Len(rean.historical) = MaxFlows
    /\ \E k \in 1..Len(rean.historical) :
          /\ rean.historical[k].src_ip \in CoveredAt(rean.cutoff)
          /\ rean.historical[k].prediction \notin BenignOrError

====
